---- MODULE Spec2Model ----
(***************************************************************************)
(* Model of the PSP22 chain extension of the Trappist runtime              *)
(* (runtime/src/psp22_chain_ext.rs): Psp22Extension::call dispatches a     *)
(* 32-bit func_id to one arm per PSP22 operation.  Each arm works on the   *)
(* call environment (input buffer, output buffer of a declared capacity,   *)
(* the caller, the gas meter) and on the assets ledger.                    *)
(***************************************************************************)
EXTENDS Integers, Sequences, FiniteSets, TLC

(***************************************************************************)
(* Bounds of the model.                                                    *)
(***************************************************************************)
\* Encoded width, in bytes, of T::AssetId, T::AccountId and T::Balance.
AssetIdBytes == 1
AccountIdBytes == 1
BalanceBytes == 2
\* Largest amount a request carries.
MaxAmount == 1
\* Cap on the sum of all allowances the model lets approve build up.
MaxAllowance == 1
\* Largest output capacity a caller declares.
MaxOutCap == 2
\* Largest gas budget a call starts with.
GasLimit == 30
\* Stand-in for the largest Weight value (saturating_add saturates there).
WeightMax == 1000000
\* Depth of the locations the reserve filter is applied to.
MaxParents == 1
MaxInteriorLen == 3

\* <T as pallet_assets::Config>::WeightInfo::transfer()
WeightInfo_transfer == 25
\* <T as pallet_assets::Config>::WeightInfo::approve_transfer()
WeightInfo_approve_transfer == 13

Accounts == {1, 2}
\* Asset 1 exists in the ledger, asset 2 does not.
ExistingAssets == {1}
AssetIds == {1, 2}
Amounts == 0..MaxAmount

(***************************************************************************)
(* func_id values (u32), written as in the source.                         *)
(***************************************************************************)
SEL_token_name == "0x3d261bd4"
SEL_token_symbol == "0x34205be5"
SEL_token_decimals == "0x7271b782"
SEL_total_supply == "0x162df8c2"
SEL_balance_of == "0x6568382f"
SEL_allowance == "0x4d47d921"
SEL_transfer == "0xdb20f9f5"
SEL_transfer_from == "0x54b3c76e"
SEL_approve == "0xb20f1bbd"
SEL_increase_allowance == "0x96d6b57a"
SEL_decrease_allowance == "0xfecb57d5"

ReadSelectors ==
  {SEL_token_name, SEL_token_symbol, SEL_token_decimals, SEL_total_supply,
   SEL_balance_of, SEL_allowance}
MutatingSelectors ==
  {SEL_transfer, SEL_transfer_from, SEL_approve, SEL_increase_allowance}
TableSelectors == ReadSelectors \cup MutatingSelectors \cup {SEL_decrease_allowance}
\* func_id values the match has no arm for.
UnregisteredSelectors == {"0xdeadbeef", "0x00000000", "0xfecb57d4"}

(***************************************************************************)
(* Argument codec: the derived Encode / Decode of the request structs.     *)
(* Scalars are fixed-width little-endian, fields are concatenated in       *)
(* declaration order, a Vec<u8> is a compact length followed by its bytes. *)
(***************************************************************************)
RECURSIVE Pow256(_)
Pow256(k) == IF k = 0 THEN 1 ELSE 256 * Pow256(k - 1)

EncodeLE(n, width) == [i \in 1..width |-> (n \div Pow256(i - 1)) % 256]

RECURSIVE DecodeLE(_)
DecodeLE(bytes) ==
  IF bytes = <<>> THEN 0 ELSE Head(bytes) + 256 * DecodeLE(Tail(bytes))

\* Compact<u32> in single-byte mode (values below 64).
EncodeCompact(n) == <<(n * 4) % 256>>
EncodeVec(bytes) == EncodeCompact(Len(bytes)) \o bytes

Max(S) == CHOOSE x \in S : \A y \in S : y <= x

Take(bytes, n) == SubSeq(bytes, 1, n)
Drop(bytes, n) == SubSeq(bytes, n + 1, Len(bytes))

DecodeError == [ok |-> FALSE]

Encode_AssetId(asset_id) == EncodeLE(asset_id, AssetIdBytes)

Decode_AssetId(bytes) ==
  IF Len(bytes) < AssetIdBytes THEN DecodeError
  ELSE [ok |-> TRUE, value |-> DecodeLE(Take(bytes, AssetIdBytes))]

Psp22BalanceOfInput_encode(v) ==
  EncodeLE(v.asset_id, AssetIdBytes) \o EncodeLE(v.owner, AccountIdBytes)

Psp22BalanceOfInput_decode(bytes) ==
  IF Len(bytes) < AssetIdBytes + AccountIdBytes THEN DecodeError
  ELSE LET r1 == Drop(bytes, AssetIdBytes)
       IN [ok |-> TRUE,
           value |-> [asset_id |-> DecodeLE(Take(bytes, AssetIdBytes)),
                      owner |-> DecodeLE(Take(r1, AccountIdBytes))]]

Psp22AllowanceInput_encode(v) ==
  EncodeLE(v.asset_id, AssetIdBytes) \o EncodeLE(v.owner, AccountIdBytes)
    \o EncodeLE(v.spender, AccountIdBytes)

Psp22AllowanceInput_decode(bytes) ==
  IF Len(bytes) < AssetIdBytes + 2 * AccountIdBytes THEN DecodeError
  ELSE LET r1 == Drop(bytes, AssetIdBytes)
           r2 == Drop(r1, AccountIdBytes)
       IN [ok |-> TRUE,
           value |-> [asset_id |-> DecodeLE(Take(bytes, AssetIdBytes)),
                      owner |-> DecodeLE(Take(r1, AccountIdBytes)),
                      spender |-> DecodeLE(Take(r2, AccountIdBytes))]]

Psp22TransferInput_encode(v) ==
  EncodeLE(v.asset_id, AssetIdBytes) \o EncodeLE(v.to, AccountIdBytes)
    \o EncodeLE(v.value, BalanceBytes)

Psp22TransferInput_decode(bytes) ==
  IF Len(bytes) < AssetIdBytes + AccountIdBytes + BalanceBytes THEN DecodeError
  ELSE LET r1 == Drop(bytes, AssetIdBytes)
           r2 == Drop(r1, AccountIdBytes)
       IN [ok |-> TRUE,
           value |-> [asset_id |-> DecodeLE(Take(bytes, AssetIdBytes)),
                      to |-> DecodeLE(Take(r1, AccountIdBytes)),
                      value |-> DecodeLE(Take(r2, BalanceBytes))]]

Psp22TransferFromInput_encode(v) ==
  EncodeLE(v.asset_id, AssetIdBytes) \o EncodeLE(v.from, AccountIdBytes)
    \o EncodeLE(v.to, AccountIdBytes) \o EncodeLE(v.value, BalanceBytes)

\* The decode of a transfer_from request with the two accounts read in the
\* other order.
Psp22TransferFromInput_decode_swapped(bytes) ==
  IF Len(bytes) < AssetIdBytes + 2 * AccountIdBytes + BalanceBytes THEN DecodeError
  ELSE LET r1 == Drop(bytes, AssetIdBytes)
           r2 == Drop(r1, AccountIdBytes)
           r3 == Drop(r2, AccountIdBytes)
       IN [ok |-> TRUE,
           value |-> [asset_id |-> DecodeLE(Take(bytes, AssetIdBytes)),
                      from |-> DecodeLE(Take(r2, AccountIdBytes)),
                      to |-> DecodeLE(Take(r1, AccountIdBytes)),
                      value |-> DecodeLE(Take(r3, BalanceBytes))]]

Psp22TransferFromInput_decode(bytes) ==
  IF Len(bytes) < AssetIdBytes + 2 * AccountIdBytes + BalanceBytes THEN DecodeError
  ELSE LET r1 == Drop(bytes, AssetIdBytes)
           r2 == Drop(r1, AccountIdBytes)
           r3 == Drop(r2, AccountIdBytes)
       IN [ok |-> TRUE,
           value |-> [asset_id |-> DecodeLE(Take(bytes, AssetIdBytes)),
                      from |-> DecodeLE(Take(r1, AccountIdBytes)),
                      to |-> DecodeLE(Take(r2, AccountIdBytes)),
                      value |-> DecodeLE(Take(r3, BalanceBytes))]]

Psp22ApproveInput_encode(v) ==
  EncodeLE(v.asset_id, AssetIdBytes) \o EncodeLE(v.spender, AccountIdBytes)
    \o EncodeLE(v.value, BalanceBytes)

Psp22ApproveInput_decode(bytes) ==
  IF Len(bytes) < AssetIdBytes + AccountIdBytes + BalanceBytes THEN DecodeError
  ELSE LET r1 == Drop(bytes, AssetIdBytes)
           r2 == Drop(r1, AccountIdBytes)
       IN [ok |-> TRUE,
           value |-> [asset_id |-> DecodeLE(Take(bytes, AssetIdBytes)),
                      spender |-> DecodeLE(Take(r1, AccountIdBytes)),
                      value |-> DecodeLE(Take(r2, BalanceBytes))]]

(***************************************************************************)
(* Ledger adapter: the pallet_assets capabilities the arms call.  A ledger *)
(* holds, for the existing asset, a balance per account and an allowance   *)
(* per (owner, spender).  Every mutate call either applies in full or      *)
(* leaves the ledger as it was and reports an error.                       *)
(***************************************************************************)
Pairs == Accounts \X Accounts

InitialLedger ==
  [balances |-> [a \in Accounts |-> IF a = 1 THEN 1 ELSE 0],
   allowances |-> [p \in Pairs |-> 0]]

RECURSIVE SumOver(_, _)
SumOver(f, S) ==
  IF S = {} THEN 0
  ELSE LET x == CHOOSE y \in S : TRUE IN f[x] + SumOver(f, S \ {x})

Ledger_balance(ledger, asset, who) ==
  IF asset \in ExistingAssets /\ who \in Accounts THEN ledger.balances[who] ELSE 0

Ledger_allowance(ledger, asset, owner, spender) ==
  IF asset \in ExistingAssets /\ <<owner, spender>> \in Pairs
  THEN ledger.allowances[<<owner, spender>>] ELSE 0

Ledger_total_issuance(ledger, asset) ==
  IF asset \in ExistingAssets THEN SumOver(ledger.balances, Accounts) ELSE 0

Ledger_name(asset) == IF asset \in ExistingAssets THEN <<84>> ELSE <<>>
Ledger_symbol(asset) == IF asset \in ExistingAssets THEN <<84>> ELSE <<>>
Ledger_decimals(asset) == IF asset \in ExistingAssets THEN 2 ELSE 0

LedgerOk(ledger) == [ok |-> TRUE, err |-> "", ledger |-> ledger]
LedgerErr(ledger, err) == [ok |-> FALSE, err |-> err, ledger |-> ledger]

Ledger_transfer(ledger, asset, source, dest, amount, keep_alive) ==
  IF asset \notin ExistingAssets \/ source \notin Accounts \/ dest \notin Accounts
  THEN LedgerErr(ledger, "Unknown")
  ELSE IF ledger.balances[source] < amount THEN LedgerErr(ledger, "BalanceLow")
  ELSE LET debited == [ledger.balances EXCEPT ![source] = @ - amount]
       IN LedgerOk([ledger EXCEPT !.balances = [debited EXCEPT ![dest] = @ + amount]])

Ledger_transfer_from(ledger, asset, delegate, owner, dest, amount) ==
  IF asset \notin ExistingAssets \/ <<owner, delegate>> \notin Pairs
     \/ dest \notin Accounts
  THEN LedgerErr(ledger, "Unknown")
  ELSE IF ledger.allowances[<<owner, delegate>>] < amount
  THEN LedgerErr(ledger, "Unapproved")
  ELSE LET t == Ledger_transfer(ledger, asset, owner, dest, amount, FALSE)
       IN IF ~t.ok THEN LedgerErr(ledger, t.err)
          ELSE LedgerOk([t.ledger EXCEPT !.allowances[<<owner, delegate>>] = @ - amount])

Ledger_approve(ledger, asset, owner, delegate, amount) ==
  IF asset \notin ExistingAssets \/ <<owner, delegate>> \notin Pairs
  THEN LedgerErr(ledger, "Unknown")
  ELSE LedgerOk([ledger EXCEPT !.allowances[<<owner, delegate>>] = @ + amount])

LedgerErrors == {"Unknown", "BalanceLow", "Unapproved"}

(***************************************************************************)
(* Host environment (pallet_contracts::chain_extension::Environment).      *)
(***************************************************************************)
\* charge_weight: all of amount is taken from the gas meter, or none of it.
Env_charge_weight(gas_left, amount) ==
  IF gas_left < amount THEN [ok |-> FALSE, gas_left |-> gas_left]
  ELSE [ok |-> TRUE, gas_left |-> gas_left - amount]

\* write(buffer, false, None): the whole buffer, or an error when it is
\* longer than the capacity the caller declared.
Env_write(buffer, out_cap) ==
  IF Len(buffer) > out_cap THEN [ok |-> FALSE, output |-> <<>>]
  ELSE [ok |-> TRUE, output |-> buffer]

SaturatingAdd(a, b) == IF a + b > WeightMax THEN WeightMax ELSE a + b

\* The weight charged without the margin added to the base weight.
estimated_weight_without_margin(weight) == weight

\* weight.saturating_add(weight / 10): the weight an arm charges for a
\* WeightInfo base weight.
estimated_weight(weight) == SaturatingAdd(weight, weight \div 10)

(***************************************************************************)
(* Values call returns.                                                    *)
(***************************************************************************)
Ok_Converging_0 == [ok |-> TRUE, error |-> "", message |-> "", value |-> 0]
Err_Other(message) == [ok |-> FALSE, error |-> "Other", message |-> message, value |-> 0]
\* Errors the host functions return, passed on by the ? operator.
Err_DecodingFailed ==
  [ok |-> FALSE, error |-> "Module", message |-> "DecodingFailed", value |-> 0]
Err_OutOfGas ==
  [ok |-> FALSE, error |-> "Module", message |-> "OutOfGas", value |-> 0]

LogEntry(level, message, detail) ==
  [level |-> level, message |-> message, detail |-> detail]

\* What one run of call leaves behind: the value returned, where it failed
\* (cause), the gas meter, the output buffer, the ledger, the host and ledger
\* functions called in order (steps) and the log lines written.
Outcome(ret, cause, gas_left, output, ledger, steps, log) ==
  [ret |-> ret, cause |-> cause, gas_left |-> gas_left, output |-> output,
   ledger |-> ledger, steps |-> steps, log |-> log]

(***************************************************************************)
(* The arms of Psp22Extension::call.  env is the call environment:         *)
(*   caller, input (bytes), out_cap, gas_left, ledger.                     *)
(* A ? on a failed host call returns its error at once; a failed write or  *)
(* ledger call is mapped to DispatchError::Other(<text of the arm>).       *)
(***************************************************************************)
\* PSP22Metadata::token_name, 0x3d261bd4
token_name(env) ==
  LET input == Decode_AssetId(env.input)
  IN IF ~input.ok
     THEN Outcome(Err_DecodingFailed, "DecodeFailure", env.gas_left, <<>>,
                  env.ledger, <<"read_as">>, <<>>)
     ELSE LET result == EncodeVec(Ledger_name(input.value))
              log == <<LogEntry("trace", "[ChainExtension] <PSP22Metadata::token_name", "")>>
              written == Env_write(result, env.out_cap)
              steps == <<"read_as", "name", "write">>
          IN IF ~written.ok
             THEN Outcome(Err_Other("ChainExtension failed to call token_name"), "OutputTooLarge",
                          env.gas_left, <<>>, env.ledger, steps, log)
             ELSE Outcome(Ok_Converging_0, "", env.gas_left, written.output,
                          env.ledger, steps, log)

\* PSP22Metadata::token_symbol, 0x34205be5
token_symbol(env) ==
  LET input == Decode_AssetId(env.input)
  IN IF ~input.ok
     THEN Outcome(Err_DecodingFailed, "DecodeFailure", env.gas_left, <<>>,
                  env.ledger, <<"read_as">>, <<>>)
     ELSE LET result == EncodeVec(Ledger_symbol(input.value))
              log == <<LogEntry("trace", "[ChainExtension] PSP22Metadata::token_symbol", "")>>
              written == Env_write(result, env.out_cap)
              steps == <<"read_as", "symbol", "write">>
          IN IF ~written.ok
             THEN Outcome(Err_Other("ChainExtension failed to call token_symbol"), "OutputTooLarge",
                          env.gas_left, <<>>, env.ledger, steps, log)
             ELSE Outcome(Ok_Converging_0, "", env.gas_left, written.output,
                          env.ledger, steps, log)

\* token_decimals falling back to the default asset id when the input does
\* not decode.
token_decimals_defaulting(env) ==
  LET input == Decode_AssetId(env.input)
      asset_id == IF input.ok THEN input.value ELSE 0
      result == EncodeLE(Ledger_decimals(asset_id), 1)
      log == <<LogEntry("trace", "[ChainExtension] PSP22Metadata::token_decimals", "")>>
      written == Env_write(result, env.out_cap)
      steps == <<"read_as", "decimals", "write">>
  IN IF ~written.ok
     THEN Outcome(Err_Other("ChainExtension failed to call token_decimals"),
                  "OutputTooLarge", env.gas_left, <<>>, env.ledger, steps, log)
     ELSE Outcome(Ok_Converging_0, "", env.gas_left, written.output,
                  env.ledger, steps, log)

\* PSP22Metadata::token_decimals, 0x7271b782
token_decimals(env) ==
  LET input == Decode_AssetId(env.input)
  IN IF ~input.ok
     THEN Outcome(Err_DecodingFailed, "DecodeFailure", env.gas_left, <<>>,
                  env.ledger, <<"read_as">>, <<>>)
     ELSE LET result == EncodeLE(Ledger_decimals(input.value), 1)
              log == <<LogEntry("trace", "[ChainExtension] PSP22Metadata::token_decimals", "")>>
              written == Env_write(result, env.out_cap)
              steps == <<"read_as", "decimals", "write">>
          IN IF ~written.ok
             THEN Outcome(Err_Other("ChainExtension failed to call token_decimals"), "OutputTooLarge",
                          env.gas_left, <<>>, env.ledger, steps, log)
             ELSE Outcome(Ok_Converging_0, "", env.gas_left, written.output,
                          env.ledger, steps, log)

\* PSP22::total_supply, 0x162df8c2
total_supply(env) ==
  LET input == Decode_AssetId(env.input)
  IN IF ~input.ok
     THEN Outcome(Err_DecodingFailed, "DecodeFailure", env.gas_left, <<>>,
                  env.ledger, <<"read_as">>, <<>>)
     ELSE LET result == EncodeLE(Ledger_total_issuance(env.ledger, input.value), BalanceBytes)
              log == <<LogEntry("trace", "[ChainExtension] PSP22::total_supply", "")>>
              written == Env_write(result, env.out_cap)
              steps == <<"read_as", "total_issuance", "write">>
          IN IF ~written.ok
             THEN Outcome(Err_Other("ChainExtension failed to call total_supply"), "OutputTooLarge",
                          env.gas_left, <<>>, env.ledger, steps, log)
             ELSE Outcome(Ok_Converging_0, "", env.gas_left, written.output,
                          env.ledger, steps, log)

\* balance_of answering for the caller instead of the owner of the request.
balance_of_caller(env) ==
  LET input == Psp22BalanceOfInput_decode(env.input)
  IN IF ~input.ok
     THEN Outcome(Err_DecodingFailed, "DecodeFailure", env.gas_left, <<>>,
                  env.ledger, <<"read_as">>, <<>>)
     ELSE LET result == EncodeLE(Ledger_balance(env.ledger, input.value.asset_id, env.caller),
                                 BalanceBytes)
              log == <<LogEntry("trace", "[ChainExtension] PSP22::balance_of", "")>>
              written == Env_write(result, env.out_cap)
              steps == <<"read_as", "balance", "write">>
          IN IF ~written.ok
             THEN Outcome(Err_Other("ChainExtension failed to call balance_of"),
                          "OutputTooLarge", env.gas_left, <<>>, env.ledger, steps, log)
             ELSE Outcome(Ok_Converging_0, "", env.gas_left, written.output,
                          env.ledger, steps, log)

\* balance_of writing as much of the result as fits and reporting success.
balance_of_truncating(env) ==
  LET input == Psp22BalanceOfInput_decode(env.input)
  IN IF ~input.ok
     THEN Outcome(Err_DecodingFailed, "DecodeFailure", env.gas_left, <<>>,
                  env.ledger, <<"read_as">>, <<>>)
     ELSE LET result == EncodeLE(Ledger_balance(env.ledger, input.value.asset_id,
                                                input.value.owner), BalanceBytes)
              log == <<LogEntry("trace", "[ChainExtension] PSP22::balance_of", "")>>
              fits == IF Len(result) > env.out_cap THEN Take(result, env.out_cap) ELSE result
          IN Outcome(Ok_Converging_0, "", env.gas_left, fits, env.ledger,
                     <<"read_as", "balance", "write">>, log)

\* PSP22::balance_of, 0x6568382f
balance_of(env) ==
  LET input == Psp22BalanceOfInput_decode(env.input)
  IN IF ~input.ok
     THEN Outcome(Err_DecodingFailed, "DecodeFailure", env.gas_left, <<>>,
                  env.ledger, <<"read_as">>, <<>>)
     ELSE LET result == EncodeLE(Ledger_balance(env.ledger, input.value.asset_id, input.value.owner),
                                 BalanceBytes)
              log == <<LogEntry("trace", "[ChainExtension] PSP22::balance_of", "")>>
              written == Env_write(result, env.out_cap)
              steps == <<"read_as", "balance", "write">>
          IN IF ~written.ok
             THEN Outcome(Err_Other("ChainExtension failed to call balance_of"), "OutputTooLarge",
                          env.gas_left, <<>>, env.ledger, steps, log)
             ELSE Outcome(Ok_Converging_0, "", env.gas_left, written.output,
                          env.ledger, steps, log)

\* allowance with a weight charge in front of the query, as the mutating
\* arms have.
allowance_charging(env) ==
  LET charged == Env_charge_weight(env.gas_left, estimated_weight(WeightInfo_approve_transfer))
  IN IF ~charged.ok
     THEN Outcome(Err_OutOfGas, "OutOfWeight", charged.gas_left, <<>>,
                  env.ledger, <<"charge_weight">>, <<>>)
     ELSE LET input == Psp22AllowanceInput_decode(env.input)
          IN IF ~input.ok
             THEN Outcome(Err_DecodingFailed, "DecodeFailure", charged.gas_left, <<>>,
                          env.ledger, <<"charge_weight", "read_as">>, <<>>)
             ELSE LET result == EncodeLE(Ledger_allowance(env.ledger, input.value.asset_id,
                                                          input.value.owner,
                                                          input.value.spender), BalanceBytes)
                      written == Env_write(result, env.out_cap)
                      steps == <<"charge_weight", "read_as", "allowance", "write">>
                  IN IF ~written.ok
                     THEN Outcome(Err_Other("ChainExtension failed to call allowance"),
                                  "OutputTooLarge", charged.gas_left, <<>>, env.ledger,
                                  steps, <<>>)
                     ELSE Outcome(Ok_Converging_0, "", charged.gas_left, written.output,
                                  env.ledger, steps, <<>>)

\* PSP22::allowance, 0x4d47d921
allowance(env) ==
  LET input == Psp22AllowanceInput_decode(env.input)
  IN IF ~input.ok
     THEN Outcome(Err_DecodingFailed, "DecodeFailure", env.gas_left, <<>>,
                  env.ledger, <<"read_as">>, <<>>)
     ELSE LET result == EncodeLE(Ledger_allowance(env.ledger, input.value.asset_id,
                                                  input.value.owner, input.value.spender),
                                 BalanceBytes)
              log == <<LogEntry("trace", "[ChainExtension] PSP22::allowance", "")>>
              written == Env_write(result, env.out_cap)
              steps == <<"read_as", "allowance", "write">>
          IN IF ~written.ok
             THEN Outcome(Err_Other("ChainExtension failed to call allowance"), "OutputTooLarge",
                          env.gas_left, <<>>, env.ledger, steps, log)
             ELSE Outcome(Ok_Converging_0, "", env.gas_left, written.output,
                          env.ledger, steps, log)

\* transfer with the result of charge_weight dropped instead of propagated.
transfer_ignoring_charge(env) ==
  LET weight == WeightInfo_transfer
      charged == Env_charge_weight(env.gas_left, estimated_weight(weight))
      log1 == <<LogEntry("trace", "[ChainExtension]|call|transfer / charge_weight:",
                         ToString(estimated_weight(weight)))>>
      input == Psp22TransferInput_decode(env.input)
  IN IF ~input.ok
     THEN Outcome(Err_DecodingFailed, "DecodeFailure", charged.gas_left, <<>>,
                  env.ledger, <<"charge_weight", "read_as">>, log1)
     ELSE LET result == Ledger_transfer(env.ledger, input.value.asset_id, env.caller,
                                        input.value.to, input.value.value, TRUE)
              log2 == Append(log1, LogEntry("trace", "[ChainExtension]|call|transfer", ""))
              steps == <<"charge_weight", "read_as", "transfer">>
          IN IF ~result.ok
             THEN Outcome(Err_Other("ChainExtension failed to call transfer"),
                          "LedgerFailure", charged.gas_left, <<>>, result.ledger, steps,
                          Append(log2, LogEntry("trace", "PSP22 Transfer failed:", result.err)))
             ELSE Outcome(Ok_Converging_0, "", charged.gas_left, <<>>,
                          result.ledger, steps, log2)

\* transfer that decodes and moves the funds first and charges the weight
\* afterwards.
transfer_charging_after(env) ==
  LET input == Psp22TransferInput_decode(env.input)
  IN IF ~input.ok
     THEN Outcome(Err_DecodingFailed, "DecodeFailure", env.gas_left, <<>>,
                  env.ledger, <<"read_as">>, <<>>)
     ELSE LET result == Ledger_transfer(env.ledger, input.value.asset_id, env.caller,
                                        input.value.to, input.value.value, TRUE)
              log == <<LogEntry("trace", "PSP22 Transfer failed:", result.err)>>
          IN IF ~result.ok
             THEN Outcome(Err_Other("ChainExtension failed to call transfer"),
                          "LedgerFailure", env.gas_left, <<>>, result.ledger,
                          <<"read_as", "transfer">>, log)
             ELSE LET charged == Env_charge_weight(env.gas_left,
                                                   estimated_weight(WeightInfo_transfer))
                      steps == <<"read_as", "transfer", "charge_weight">>
                  IN IF ~charged.ok
                     THEN Outcome(Err_OutOfGas, "OutOfWeight", charged.gas_left, <<>>,
                                  env.ledger, steps, <<>>)
                     ELSE Outcome(Ok_Converging_0, "", charged.gas_left, <<>>,
                                  result.ledger, steps, <<>>)

\* transfer calling the ledger a second time when the first call failed.
transfer_retrying(env) ==
  LET weight == WeightInfo_transfer
      charged == Env_charge_weight(env.gas_left, estimated_weight(weight))
  IN IF ~charged.ok
     THEN Outcome(Err_OutOfGas, "OutOfWeight", charged.gas_left, <<>>,
                  env.ledger, <<"charge_weight">>, <<>>)
     ELSE LET input == Psp22TransferInput_decode(env.input)
          IN IF ~input.ok
             THEN Outcome(Err_DecodingFailed, "DecodeFailure", charged.gas_left, <<>>,
                          env.ledger, <<"charge_weight", "read_as">>, <<>>)
             ELSE LET result == Ledger_transfer(env.ledger, input.value.asset_id, env.caller,
                                                input.value.to, input.value.value, TRUE)
                      again == Ledger_transfer(result.ledger, input.value.asset_id,
                                               env.caller, input.value.to,
                                               input.value.value, TRUE)
                  IN IF result.ok
                     THEN Outcome(Ok_Converging_0, "", charged.gas_left, <<>>, result.ledger,
                                  <<"charge_weight", "read_as", "transfer">>, <<>>)
                     ELSE IF again.ok
                     THEN Outcome(Ok_Converging_0, "", charged.gas_left, <<>>, again.ledger,
                                  <<"charge_weight", "read_as", "transfer", "transfer">>, <<>>)
                     ELSE Outcome(Err_Other("ChainExtension failed to call transfer"),
                                  "LedgerFailure", charged.gas_left, <<>>, again.ledger,
                                  <<"charge_weight", "read_as", "transfer", "transfer">>,
                                  <<LogEntry("trace", "PSP22 Transfer failed:", again.err)>>)

\* PSP22::transfer, 0xdb20f9f5
transfer(env) ==
  LET weight == WeightInfo_transfer
      charged == Env_charge_weight(env.gas_left, estimated_weight(weight))
  IN IF ~charged.ok
     THEN Outcome(Err_OutOfGas, "OutOfWeight", charged.gas_left, <<>>,
                  env.ledger, <<"charge_weight">>, <<>>)
     ELSE LET log1 == <<LogEntry("trace", "[ChainExtension]|call|transfer / charge_weight:",
                                 ToString(estimated_weight(weight)))>>
              input == Psp22TransferInput_decode(env.input)
          IN IF ~input.ok
             THEN Outcome(Err_DecodingFailed, "DecodeFailure", charged.gas_left, <<>>,
                          env.ledger, <<"charge_weight", "read_as">>, log1)
             ELSE LET sender == env.caller
                      result == Ledger_transfer(env.ledger, input.value.asset_id, sender,
                                                input.value.to, input.value.value, TRUE)
                      log2 == Append(log1, LogEntry("trace", "[ChainExtension]|call|transfer", ""))
                      steps == <<"charge_weight", "read_as", "transfer">>
                  IN IF ~result.ok
                     THEN Outcome(Err_Other("ChainExtension failed to call transfer"), "LedgerFailure",
                                  charged.gas_left, <<>>, result.ledger, steps,
                                  Append(log2, LogEntry("trace", "PSP22 Transfer failed:", result.err)))
                     ELSE Outcome(Ok_Converging_0, "", charged.gas_left, <<>>,
                                  result.ledger, steps, log2)

\* transfer_from with the input decoded before the weight is charged.
transfer_from_decode_first(env) ==
  LET input == Psp22TransferFromInput_decode(env.input)
  IN IF ~input.ok
     THEN Outcome(Err_DecodingFailed, "DecodeFailure", env.gas_left, <<>>,
                  env.ledger, <<"read_as">>, <<>>)
     ELSE LET weight == WeightInfo_transfer
              charged == Env_charge_weight(env.gas_left, estimated_weight(weight))
          IN IF ~charged.ok
             THEN Outcome(Err_OutOfGas, "OutOfWeight", charged.gas_left, <<>>,
                          env.ledger, <<"read_as", "charge_weight">>, <<>>)
             ELSE LET result == Ledger_transfer_from(env.ledger, input.value.asset_id,
                                                     env.caller, input.value.from,
                                                     input.value.to, input.value.value)
                      steps == <<"read_as", "charge_weight", "transfer_from">>
                      log == <<LogEntry("trace", "[ChainExtension]|call|transfer_from", "")>>
                  IN IF ~result.ok
                     THEN Outcome(Err_Other("ChainExtension failed to call transfer_from"),
                                  "LedgerFailure", charged.gas_left, <<>>, result.ledger,
                                  steps, Append(log, LogEntry("trace",
                                                  "PSP22 transfer_from failed:", result.err)))
                     ELSE Outcome(Ok_Converging_0, "", charged.gas_left, <<>>,
                                  result.ledger, steps, log)

\* transfer_from done as a plain transfer out of the owner's account followed
\* by the allowance check, so that a failed check leaves the transfer applied.
transfer_from_transfer_then_check(env) ==
  LET weight == WeightInfo_transfer
      charged == Env_charge_weight(env.gas_left, estimated_weight(weight))
  IN IF ~charged.ok
     THEN Outcome(Err_OutOfGas, "OutOfWeight", charged.gas_left, <<>>,
                  env.ledger, <<"charge_weight">>, <<>>)
     ELSE LET input == Psp22TransferFromInput_decode(env.input)
          IN IF ~input.ok
             THEN Outcome(Err_DecodingFailed, "DecodeFailure", charged.gas_left, <<>>,
                          env.ledger, <<"charge_weight", "read_as">>, <<>>)
             ELSE LET moved == Ledger_transfer(env.ledger, input.value.asset_id,
                                               input.value.from, input.value.to,
                                               input.value.value, TRUE)
                      result == Ledger_transfer_from(env.ledger, input.value.asset_id,
                                                     env.caller, input.value.from,
                                                     input.value.to, input.value.value)
                      steps == <<"charge_weight", "read_as", "transfer_from">>
                  IN IF ~result.ok
                     THEN Outcome(Err_Other("ChainExtension failed to call transfer_from"),
                                  "LedgerFailure", charged.gas_left, <<>>, moved.ledger,
                                  steps, <<LogEntry("trace", "PSP22 transfer_from failed:",
                                                    result.err)>>)
                     ELSE Outcome(Ok_Converging_0, "", charged.gas_left, <<>>,
                                  result.ledger, steps, <<>>)

\* transfer_from with the ledger's error handed to the caller as the message.
transfer_from_leaking_error(env) ==
  LET weight == WeightInfo_transfer
      charged == Env_charge_weight(env.gas_left, estimated_weight(weight))
  IN IF ~charged.ok
     THEN Outcome(Err_OutOfGas, "OutOfWeight", charged.gas_left, <<>>,
                  env.ledger, <<"charge_weight">>, <<>>)
     ELSE LET input == Psp22TransferFromInput_decode(env.input)
          IN IF ~input.ok
             THEN Outcome(Err_DecodingFailed, "DecodeFailure", charged.gas_left, <<>>,
                          env.ledger, <<"charge_weight", "read_as">>, <<>>)
             ELSE LET result == Ledger_transfer_from(env.ledger, input.value.asset_id,
                                                     env.caller, input.value.from,
                                                     input.value.to, input.value.value)
                      steps == <<"charge_weight", "read_as", "transfer_from">>
                  IN IF ~result.ok
                     THEN Outcome(Err_Other(result.err), "LedgerFailure",
                                  charged.gas_left, <<>>, result.ledger, steps,
                                  <<LogEntry("trace", "PSP22 transfer_from failed:",
                                             result.err)>>)
                     ELSE Outcome(Ok_Converging_0, "", charged.gas_left, <<>>,
                                  result.ledger, steps, <<>>)

\* PSP22::transfer_from, 0x54b3c76e
transfer_from(env) ==
  LET weight == WeightInfo_transfer
      charged == Env_charge_weight(env.gas_left, estimated_weight(weight))
  IN IF ~charged.ok
     THEN Outcome(Err_OutOfGas, "OutOfWeight", charged.gas_left, <<>>,
                  env.ledger, <<"charge_weight">>, <<>>)
     ELSE LET log1 == <<LogEntry("trace", "[ChainExtension]|call|transfer / charge_weight:",
                                 ToString(estimated_weight(weight)))>>
              input == Psp22TransferFromInput_decode(env.input)
          IN IF ~input.ok
             THEN Outcome(Err_DecodingFailed, "DecodeFailure", charged.gas_left, <<>>,
                          env.ledger, <<"charge_weight", "read_as">>, log1)
             ELSE LET sender == env.caller
                      result == Ledger_transfer_from(env.ledger, input.value.asset_id, sender,
                                                     input.value.from, input.value.to,
                                                     input.value.value)
                      log2 == Append(log1, LogEntry("trace", "[ChainExtension]|call|transfer_from", ""))
                      steps == <<"charge_weight", "read_as", "transfer_from">>
                  IN IF ~result.ok
                     THEN Outcome(Err_Other("ChainExtension failed to call transfer_from"), "LedgerFailure",
                                  charged.gas_left, <<>>, result.ledger, steps,
                                  Append(log2, LogEntry("trace", "PSP22 transfer_from failed:", result.err)))
                     ELSE Outcome(Ok_Converging_0, "", charged.gas_left, <<>>,
                                  result.ledger, steps, log2)

\* approve with the ledger's result dropped: the call reports success
\* whatever the ledger answered.
approve_ignoring_result(env) ==
  LET weight == WeightInfo_approve_transfer
      charged == Env_charge_weight(env.gas_left, estimated_weight(weight))
  IN IF ~charged.ok
     THEN Outcome(Err_OutOfGas, "OutOfWeight", charged.gas_left, <<>>,
                  env.ledger, <<"charge_weight">>, <<>>)
     ELSE LET input == Psp22ApproveInput_decode(env.input)
          IN IF ~input.ok
             THEN Outcome(Err_DecodingFailed, "DecodeFailure", charged.gas_left, <<>>,
                          env.ledger, <<"charge_weight", "read_as">>, <<>>)
             ELSE LET result == Ledger_approve(env.ledger, input.value.asset_id, env.caller,
                                               input.value.spender, input.value.value)
                  IN Outcome(Ok_Converging_0, "", charged.gas_left, <<>>, result.ledger,
                             <<"charge_weight", "read_as", "approve">>, <<>>)

\* approve handing the charged weight back when the ledger refuses.
approve_refunding(env) ==
  LET weight == WeightInfo_approve_transfer
      charged == Env_charge_weight(env.gas_left, estimated_weight(weight))
  IN IF ~charged.ok
     THEN Outcome(Err_OutOfGas, "OutOfWeight", charged.gas_left, <<>>,
                  env.ledger, <<"charge_weight">>, <<>>)
     ELSE LET input == Psp22ApproveInput_decode(env.input)
          IN IF ~input.ok
             THEN Outcome(Err_DecodingFailed, "DecodeFailure", charged.gas_left, <<>>,
                          env.ledger, <<"charge_weight", "read_as">>, <<>>)
             ELSE LET result == Ledger_approve(env.ledger, input.value.asset_id, env.caller,
                                               input.value.spender, input.value.value)
                      steps == <<"charge_weight", "read_as", "approve">>
                  IN IF ~result.ok
                     THEN Outcome(Err_Other("ChainExtension failed to call approve"),
                                  "LedgerFailure", env.gas_left, <<>>, result.ledger, steps,
                                  <<LogEntry("trace", "PSP22 Approve failed:", result.err)>>)
                     ELSE Outcome(Ok_Converging_0, "", charged.gas_left, <<>>,
                                  result.ledger, steps, <<>>)

\* approve with the two accounts swapped: the allowance is granted in the
\* name of the spender the input names, to the caller.
approve_swapped_accounts(env) ==
  LET weight == WeightInfo_approve_transfer
      charged == Env_charge_weight(env.gas_left, estimated_weight(weight))
  IN IF ~charged.ok
     THEN Outcome(Err_OutOfGas, "OutOfWeight", charged.gas_left, <<>>,
                  env.ledger, <<"charge_weight">>, <<>>)
     ELSE LET input == Psp22ApproveInput_decode(env.input)
          IN IF ~input.ok
             THEN Outcome(Err_DecodingFailed, "DecodeFailure", charged.gas_left, <<>>,
                          env.ledger, <<"charge_weight", "read_as">>, <<>>)
             ELSE LET result == Ledger_approve(env.ledger, input.value.asset_id,
                                               input.value.spender, env.caller,
                                               input.value.value)
                      steps == <<"charge_weight", "read_as", "approve">>
                  IN IF ~result.ok
                     THEN Outcome(Err_Other("ChainExtension failed to call approve"),
                                  "LedgerFailure", charged.gas_left, <<>>, result.ledger, steps,
                                  <<LogEntry("trace", "PSP22 Approve failed:", result.err)>>)
                     ELSE Outcome(Ok_Converging_0, "", charged.gas_left, <<>>,
                                  result.ledger, steps, <<>>)

\* PSP22::approve + PSP22::increase_allowance, 0xb20f1bbd | 0x96d6b57a
approve(env) ==
  LET weight == WeightInfo_approve_transfer
      charged == Env_charge_weight(env.gas_left, estimated_weight(weight))
  IN IF ~charged.ok
     THEN Outcome(Err_OutOfGas, "OutOfWeight", charged.gas_left, <<>>,
                  env.ledger, <<"charge_weight">>, <<>>)
     ELSE LET log1 == <<LogEntry("trace", "[ChainExtension]|call|approve / charge_weight:",
                                 ToString(estimated_weight(weight)))>>
              input == Psp22ApproveInput_decode(env.input)
          IN IF ~input.ok
             THEN Outcome(Err_DecodingFailed, "DecodeFailure", charged.gas_left, <<>>,
                          env.ledger, <<"charge_weight", "read_as">>, log1)
             ELSE LET sender == env.caller
                      result == Ledger_approve(env.ledger, input.value.asset_id, sender,
                                               input.value.spender, input.value.value)
                      log2 == Append(log1, LogEntry("trace", "[ChainExtension]|call|approve", ""))
                      steps == <<"charge_weight", "read_as", "approve">>
                  IN IF ~result.ok
                     THEN Outcome(Err_Other("ChainExtension failed to call approve"), "LedgerFailure",
                                  charged.gas_left, <<>>, result.ledger, steps,
                                  Append(log2, LogEntry("trace", "PSP22 Approve failed:", result.err)))
                     ELSE Outcome(Ok_Converging_0, "", charged.gas_left, <<>>,
                                  result.ledger, steps, log2)

\* PSP22::decrease_allowance, 0xfecb57d5
decrease_allowance(env) ==
  Outcome(Err_Other("Unimplemented func_id"), "Unimplemented", env.gas_left, <<>>,
          env.ledger, <<>>,
          <<LogEntry("trace", "[ChainExtension]|call|decrease_allowance", "")>>)

\* The wildcard arm without its return: it logs and falls through to Ok.
unregistered_falling_through(func_id, env) ==
  Outcome(Ok_Converging_0, "", env.gas_left, <<>>, env.ledger, <<>>,
          <<LogEntry("error", "Called an unregistered func_id:", func_id)>>)

\* The wildcard arm putting the func_id into the error it returns.
unregistered_reporting_selector(func_id, env) ==
  Outcome(Err_Other(func_id), "UnknownSelector", env.gas_left, <<>>,
          env.ledger, <<>>,
          <<LogEntry("error", "Called an unregistered func_id:", func_id)>>)

\* The wildcard arm: any func_id without an arm of its own.
unregistered(func_id, env) ==
  Outcome(Err_Other("Unimplemented func_id"), "UnknownSelector", env.gas_left, <<>>,
          env.ledger, <<>>,
          <<LogEntry("error", "Called an unregistered func_id:", func_id)>>)

\* The match with 0x96d6b57a left out of the approve arm's pattern.
call_without_alias(func_id, env) ==
  CASE func_id = SEL_token_name -> token_name(env)
    [] func_id = SEL_token_symbol -> token_symbol(env)
    [] func_id = SEL_token_decimals -> token_decimals(env)
    [] func_id = SEL_total_supply -> total_supply(env)
    [] func_id = SEL_balance_of -> balance_of(env)
    [] func_id = SEL_allowance -> allowance(env)
    [] func_id = SEL_transfer -> transfer(env)
    [] func_id = SEL_transfer_from -> transfer_from(env)
    [] func_id = SEL_approve -> approve(env)
    [] func_id = SEL_decrease_allowance -> decrease_allowance(env)
    [] OTHER -> unregistered(func_id, env)

\* match func_id
call(func_id, env) ==
  CASE func_id = SEL_token_name -> token_name(env)
    [] func_id = SEL_token_symbol -> token_symbol(env)
    [] func_id = SEL_token_decimals -> token_decimals(env)
    [] func_id = SEL_total_supply -> total_supply(env)
    [] func_id = SEL_balance_of -> balance_of(env)
    [] func_id = SEL_allowance -> allowance(env)
    [] func_id = SEL_transfer -> transfer(env)
    [] func_id = SEL_transfer_from -> transfer_from(env)
    [] func_id \in {SEL_approve, SEL_increase_allowance} -> approve(env)
    [] func_id = SEL_decrease_allowance -> decrease_allowance(env)
    [] OTHER -> unregistered(func_id, env)

(***************************************************************************)
(* XCM reserve filter (xcm_config.rs).  A MultiLocation is a number of     *)
(* parents and an interior, a sequence of junctions; a MultiAsset has an   *)
(* id, Concrete(location) or Abstract(name), and a fungibility,            *)
(* Fungible(amount) or NonFungible(instance).  An id is a record of its    *)
(* kind, its location (of a Concrete one) and its name (of an Abstract     *)
(* one).                                                                   *)
(***************************************************************************)
StatemineLocation == [parents |-> 1, interior |-> << <<"Parachain", 1000>> >>]
StatemineAssetsPalletLocation ==
  [parents |-> 1, interior |-> << <<"Parachain", 1000>>, <<"PalletInstance", 50>> >>]

\* matches_prefix without the comparison of the lengths: only the junctions
\* the two interiors have in common are compared.
matches_prefix_without_len(prefix, loc) ==
  /\ prefix.parents = loc.parents
  /\ \A i \in 1..Len(prefix.interior) :
       i <= Len(loc.interior) => prefix.interior[i] = loc.interior[i]

\* len() of a MultiLocation counts its parents and its junctions; zip stops
\* at the end of the shorter interior.
matches_prefix(prefix, loc) ==
  /\ prefix.parents = loc.parents
  /\ loc.parents + Len(loc.interior) >= prefix.parents + Len(prefix.interior)
  /\ \A i \in 1..Len(prefix.interior) :
       i <= Len(loc.interior) => prefix.interior[i] = loc.interior[i]

\* ReserveAssetsFrom<T>::filter_asset_location, T::get() passed as T
filter_asset_location(T, asset, origin) ==
  LET prefix == T
  IN /\ prefix = origin
     /\ CASE asset.id.kind = "Concrete" /\ asset.fun.kind = "Fungible" ->
               matches_prefix(prefix, asset.id.location)
          [] OTHER -> FALSE

(***************************************************************************)
(* State: the ledger (the storage of pallet_assets, the only durable state *)
(* the extension touches) and a record of the last call: its func_id, the  *)
(* environment it was given and what it left behind.  The codec and the    *)
(* reserve filter are pure functions: applied records the last application *)
(* of one of them, its arguments and its result.                           *)
(***************************************************************************)
VARIABLES pallet_assets, last, applied

vars == <<pallet_assets, last, applied>>

(***************************************************************************)
(* Input buffers a caller may pass: every well-formed request over the     *)
(* model's ids and amounts, every truncation of one of them, and one with  *)
(* a byte appended.                                                        *)
(***************************************************************************)
Prefixes(bytes) == {Take(bytes, n) : n \in 0..(Len(bytes) - 1)}

BuffersOf(wellFormed) ==
  LET one == CHOOSE b \in wellFormed : TRUE
  IN wellFormed \cup Prefixes(one) \cup {one \o <<255>>}

AssetIdBuffers == BuffersOf({Encode_AssetId(a) : a \in AssetIds})

BalanceOfBuffers ==
  BuffersOf({Psp22BalanceOfInput_encode([asset_id |-> a, owner |-> o]) :
               a \in AssetIds, o \in Accounts})

AllowanceBuffers ==
  BuffersOf({Psp22AllowanceInput_encode([asset_id |-> a, owner |-> o, spender |-> s]) :
               a \in AssetIds, o \in Accounts, s \in Accounts})

TransferBuffers ==
  BuffersOf({Psp22TransferInput_encode([asset_id |-> a, to |-> t, value |-> v]) :
               a \in AssetIds, t \in Accounts, v \in Amounts})

TransferFromBuffers ==
  BuffersOf({Psp22TransferFromInput_encode(
               [asset_id |-> a, from |-> f, to |-> t, value |-> v]) :
               a \in AssetIds, f \in Accounts, t \in Accounts, v \in Amounts})

ApproveBuffers ==
  BuffersOf({Psp22ApproveInput_encode([asset_id |-> a, spender |-> s, value |-> v]) :
               a \in AssetIds, s \in Accounts, v \in Amounts})

\* The estimated cost each mutating arm charges.
TransferCost == estimated_weight(WeightInfo_transfer)
ApproveCost == estimated_weight(WeightInfo_approve_transfer)

Environment(caller, input, out_cap, gas_left, ledger) ==
  [caller |-> caller, input |-> input, out_cap |-> out_cap, gas_left |-> gas_left,
   ledger |-> ledger]

NoCall ==
  [valid |-> FALSE, func_id |-> "",
   env |-> Environment(1, <<>>, 0, 0, InitialLedger),
   out |-> Outcome(Ok_Converging_0, "", 0, <<>>, InitialLedger, <<>>, <<>>)]

NotApplied ==
  [fn |-> "", input |-> <<>>, encoded |-> <<>>, output |-> <<>>, done |-> FALSE]

Init ==
  /\ pallet_assets = InitialLedger
  /\ last = NoCall
  /\ applied = NotApplied

AllowanceTotal(ledger) == SumOver(ledger.allowances, Pairs)

\* One call of the chain extension, run to completion.
Dispatch(func_id, env) ==
  LET out == call(func_id, env)
  IN /\ AllowanceTotal(out.ledger) <= MaxAllowance
     /\ pallet_assets' = out.ledger
     /\ last' = [valid |-> TRUE, func_id |-> func_id, env |-> env, out |-> out]
     /\ UNCHANGED applied

\* Environments of a read-only operation: any buffer and declared output
\* capacity (no read arm consults the caller, so one caller stands for all).
ReadEnvs(buffers, ledger) ==
  {Environment(caller, input, out_cap, GasLimit, ledger) :
     caller \in {Max(Accounts)}, input \in buffers, out_cap \in 0..MaxOutCap}

\* Environments of a mutating operation: any caller and buffer with the full
\* budget, and a well-formed and a truncated buffer with a budget one short
\* of the cost.
MutatingEnvs(buffers, cost, ledger) ==
  LET one == CHOOSE b \in buffers : Len(b) = Max({Len(c) : c \in buffers}) - 1
  IN {Environment(caller, input, MaxOutCap, GasLimit, ledger) :
        caller \in Accounts, input \in buffers}
     \cup {Environment(caller, input, MaxOutCap, cost - 1, ledger) :
             caller \in Accounts, input \in {one, Take(one, Len(one) - 1)}}

\* Environments of the two arms that stop at once.
PlainEnvs(buffers, ledger) ==
  {Environment(caller, input, MaxOutCap, GasLimit, ledger) :
     caller \in Accounts,
     input \in {<<>>, CHOOSE b \in buffers : Len(b) = Max({Len(c) : c \in buffers})}}

EnvsFor(func_id, ledger) ==
  CASE func_id \in {SEL_token_name, SEL_token_symbol, SEL_token_decimals,
                    SEL_total_supply} -> ReadEnvs(AssetIdBuffers, ledger)
    [] func_id = SEL_balance_of -> ReadEnvs(BalanceOfBuffers, ledger)
    [] func_id = SEL_allowance -> ReadEnvs(AllowanceBuffers, ledger)
    [] func_id = SEL_transfer -> MutatingEnvs(TransferBuffers, TransferCost, ledger)
    [] func_id = SEL_transfer_from ->
         MutatingEnvs(TransferFromBuffers, TransferCost, ledger)
    [] func_id \in {SEL_approve, SEL_increase_allowance} ->
         MutatingEnvs(ApproveBuffers, ApproveCost, ledger)
    [] func_id = SEL_decrease_allowance -> PlainEnvs(ApproveBuffers, ledger)
    [] OTHER -> PlainEnvs(AssetIdBuffers, ledger)

CallTokenName ==
  \E env \in EnvsFor(SEL_token_name, pallet_assets) : Dispatch(SEL_token_name, env)
CallTokenSymbol ==
  \E env \in EnvsFor(SEL_token_symbol, pallet_assets) : Dispatch(SEL_token_symbol, env)
CallTokenDecimals ==
  \E env \in EnvsFor(SEL_token_decimals, pallet_assets) :
    Dispatch(SEL_token_decimals, env)
CallTotalSupply ==
  \E env \in EnvsFor(SEL_total_supply, pallet_assets) : Dispatch(SEL_total_supply, env)
CallBalanceOf ==
  \E env \in EnvsFor(SEL_balance_of, pallet_assets) : Dispatch(SEL_balance_of, env)
CallAllowance ==
  \E env \in EnvsFor(SEL_allowance, pallet_assets) : Dispatch(SEL_allowance, env)
CallTransfer ==
  \E env \in EnvsFor(SEL_transfer, pallet_assets) : Dispatch(SEL_transfer, env)
CallTransferFrom ==
  \E env \in EnvsFor(SEL_transfer_from, pallet_assets) :
    Dispatch(SEL_transfer_from, env)
CallApprove ==
  \E env \in EnvsFor(SEL_approve, pallet_assets) : Dispatch(SEL_approve, env)
CallIncreaseAllowance ==
  \E env \in EnvsFor(SEL_increase_allowance, pallet_assets) :
    Dispatch(SEL_increase_allowance, env)
CallDecreaseAllowance ==
  \E env \in EnvsFor(SEL_decrease_allowance, pallet_assets) :
    Dispatch(SEL_decrease_allowance, env)
CallUnregistered ==
  \E func_id \in UnregisteredSelectors :
    \E env \in EnvsFor(func_id, pallet_assets) : Dispatch(func_id, env)

Next ==
  \/ CallTokenName
  \/ CallTokenSymbol
  \/ CallTokenDecimals
  \/ CallTotalSupply
  \/ CallBalanceOf
  \/ CallAllowance
  \/ CallTransfer
  \/ CallTransferFrom
  \/ CallApprove
  \/ CallIncreaseAllowance
  \/ CallDecreaseAllowance
  \/ CallUnregistered

Spec == Init /\ [][Next]_vars

(***************************************************************************)
(* The argument codec on its own: a value of a request type, over field    *)
(* values that include the smallest and the largest of each width, is      *)
(* encoded and the encoding decoded.                                       *)
(***************************************************************************)
FieldValues(width) ==
  {n \in {0, 1, 2, 255, 256, 257, Pow256(width) - 1} : n < Pow256(width)}

AssetIdValues == FieldValues(AssetIdBytes)
AccountIdValues == FieldValues(AccountIdBytes)
BalanceValues == FieldValues(BalanceBytes)

Psp22BalanceOfInputs == [asset_id : AssetIdValues, owner : AccountIdValues]
Psp22AllowanceInputs ==
  [asset_id : AssetIdValues, owner : AccountIdValues, spender : AccountIdValues]
Psp22TransferInputs == [asset_id : AssetIdValues, to : AccountIdValues, value : BalanceValues]
Psp22TransferFromInputs ==
  [asset_id : AssetIdValues, from : AccountIdValues, to : AccountIdValues,
   value : BalanceValues]
Psp22ApproveInputs ==
  [asset_id : AssetIdValues, spender : AccountIdValues, value : BalanceValues]

\* The function fn is about to be applied to the input.
ToApply(fn, input) ==
  [fn |-> fn, input |-> input, encoded |-> <<>>, output |-> <<>>, done |-> FALSE]

Applied(encoded, output) ==
  /\ ~applied.done
  /\ applied' = [applied EXCEPT !.encoded = encoded, !.output = output, !.done = TRUE]
  /\ UNCHANGED <<pallet_assets, last>>

CodecInit ==
  /\ pallet_assets = InitialLedger
  /\ last = NoCall
  /\ applied \in {ToApply("Psp22BalanceOfInput", v) : v \in Psp22BalanceOfInputs}
                   \cup {ToApply("Psp22AllowanceInput", v) : v \in Psp22AllowanceInputs}
                   \cup {ToApply("Psp22TransferInput", v) : v \in Psp22TransferInputs}
                   \cup {ToApply("Psp22TransferFromInput", v) : v \in Psp22TransferFromInputs}
                   \cup {ToApply("Psp22ApproveInput", v) : v \in Psp22ApproveInputs}

RoundTripBalanceOfInput ==
  /\ applied.fn = "Psp22BalanceOfInput"
  /\ LET encoded == Psp22BalanceOfInput_encode(applied.input)
     IN Applied(encoded, Psp22BalanceOfInput_decode(encoded))

RoundTripAllowanceInput ==
  /\ applied.fn = "Psp22AllowanceInput"
  /\ LET encoded == Psp22AllowanceInput_encode(applied.input)
     IN Applied(encoded, Psp22AllowanceInput_decode(encoded))

RoundTripTransferInput ==
  /\ applied.fn = "Psp22TransferInput"
  /\ LET encoded == Psp22TransferInput_encode(applied.input)
     IN Applied(encoded, Psp22TransferInput_decode(encoded))

RoundTripTransferFromInput ==
  /\ applied.fn = "Psp22TransferFromInput"
  /\ LET encoded == Psp22TransferFromInput_encode(applied.input)
     IN Applied(encoded, Psp22TransferFromInput_decode(encoded))

RoundTripApproveInput ==
  /\ applied.fn = "Psp22ApproveInput"
  /\ LET encoded == Psp22ApproveInput_encode(applied.input)
     IN Applied(encoded, Psp22ApproveInput_decode(encoded))

CodecNext ==
  \/ RoundTripBalanceOfInput
  \/ RoundTripAllowanceInput
  \/ RoundTripTransferInput
  \/ RoundTripTransferFromInput
  \/ RoundTripApproveInput

CodecSpec == CodecInit /\ [][CodecNext]_vars

(***************************************************************************)
(* The reserve filter on its own: filter_asset_location applied to a       *)
(* configured location T, an asset and an origin of the sets below.        *)
(***************************************************************************)
Junctions ==
  {<<"Parachain", 1000>>, <<"Parachain", 2000>>, <<"PalletInstance", 50>>,
   <<"GeneralIndex", 1>>}

RECURSIVE Interiors(_)
Interiors(len) ==
  IF len = 0 THEN {<<>>}
  ELSE Interiors(len - 1)
         \cup {Append(interior, junction) :
                 interior \in {i \in Interiors(len - 1) : Len(i) = len - 1},
                 junction \in Junctions}

MultiLocations ==
  {[parents |-> parents, interior |-> interior] :
     parents \in 0..MaxParents, interior \in Interiors(MaxInteriorLen)}

ReserveLocations ==
  {StatemineLocation, StatemineAssetsPalletLocation,
   [parents |-> 1, interior |-> <<>>], [parents |-> 0, interior |-> <<>>]}

Origins == ReserveLocations \cup {[parents |-> 1, interior |-> << <<"Parachain", 2000>> >>]}

Fungibilities == {[kind |-> "Fungible", value |-> 1], [kind |-> "NonFungible", value |-> 1]}

MultiAssets ==
  {[id |-> [kind |-> "Concrete", location |-> location, name |-> <<>>], fun |-> fun] :
     location \in MultiLocations, fun \in Fungibilities}
    \cup {[id |-> [kind |-> "Abstract", location |-> [parents |-> 0, interior |-> <<>>],
                    name |-> <<1>>], fun |-> fun] : fun \in Fungibilities}

ReserveInit ==
  /\ pallet_assets = InitialLedger
  /\ last = NoCall
  /\ applied \in {ToApply("filter_asset_location", input) :
                    input \in [prefix : ReserveLocations, asset : MultiAssets,
                               origin : Origins]}

FilterAssetLocation ==
  /\ applied.fn = "filter_asset_location"
  /\ Applied(<<>>, filter_asset_location(applied.input.prefix, applied.input.asset,
                                         applied.input.origin))

ReserveNext == FilterAssetLocation

ReserveSpec == ReserveInit /\ [][ReserveNext]_vars

(***************************************************************************)
(* Claims.  Each is stated about the last call: the environment it got     *)
(* (last.env, with the ledger as it was before) and what it left           *)
(* (last.out, with pallet_assets the ledger after).                        *)
(***************************************************************************)
Returned(func_ids) == last.valid /\ last.func_id \in func_ids
Failed == ~last.out.ret.ok
LedgerUnchanged == last.out.ledger = last.env.ledger /\ pallet_assets = last.env.ledger
MutateSteps == {"transfer", "transfer_from", "approve"}
QuerySteps == {"name", "symbol", "decimals", "total_issuance", "balance", "allowance"}
StepsOf(out) == {out.steps[i] : i \in 1..Len(out.steps)}

\* The cost a mutating func_id is charged.
EstimatedCost(func_id) ==
  IF func_id \in {SEL_transfer, SEL_transfer_from} THEN TransferCost ELSE ApproveCost

\* Whether the buffer decodes as the request type of func_id.
Decodes(func_id, input) ==
  CASE func_id = SEL_balance_of -> Psp22BalanceOfInput_decode(input).ok
    [] func_id = SEL_allowance -> Psp22AllowanceInput_decode(input).ok
    [] func_id = SEL_transfer -> Psp22TransferInput_decode(input).ok
    [] func_id = SEL_transfer_from -> Psp22TransferFromInput_decode(input).ok
    [] func_id \in {SEL_approve, SEL_increase_allowance} ->
         Psp22ApproveInput_decode(input).ok
    [] OTHER -> Decode_AssetId(input).ok

\* C1: a call of 0xfecb57d5 (decrease allowance) fails with the cause
\* Unimplemented, and the value it returns differs from the value any
\* unregistered func_id returns in the same environment.
C1_UnimplementedDistinguishable ==
  Returned({SEL_decrease_allowance}) =>
    /\ Failed
    /\ last.out.cause = "Unimplemented"
    /\ \A f \in UnregisteredSelectors : call(f, last.env).ret # last.out.ret

\* C2: a call of a func_id outside the selector table fails with the cause
\* UnknownSelector (logged at error severity) and has no side effect: the gas
\* meter is as before, no host or ledger function was called (no charge, no
\* read of the input, no query, no mutation), the output is empty and the
\* ledger is as before.
C2_UnknownSelectorNoEffect ==
  (last.valid /\ last.func_id \notin TableSelectors) =>
    /\ Failed
    /\ last.out.cause = "UnknownSelector"
    /\ last.out.gas_left = last.env.gas_left
    /\ last.out.steps = <<>>
    /\ last.out.output = <<>>
    /\ LedgerUnchanged
    /\ \E i \in 1..Len(last.out.log) : last.out.log[i].level = "error"

C2_Witness ==
  /\ Returned({"0xdeadbeef"})
  /\ Failed
  /\ last.env.input # <<>>
  /\ last.env.ledger # InitialLedger

\* C3: a call of a mutating func_id whose remaining budget is smaller than
\* the estimated cost fails with OutOfWeight at once: the budget is as before
\* (nothing charged), the charge is the only step (the input is not decoded,
\* no ledger call is made) and the ledger is as before.
C3_OutOfWeightFailsClosed ==
  (Returned(MutatingSelectors) /\ last.env.gas_left < EstimatedCost(last.func_id)) =>
    /\ Failed
    /\ last.out.cause = "OutOfWeight"
    /\ last.out.ret = Err_OutOfGas
    /\ last.out.gas_left = last.env.gas_left
    /\ last.out.steps = <<"charge_weight">>
    /\ LedgerUnchanged

C3_Witness ==
  /\ Returned({SEL_transfer})
  /\ last.env.gas_left = TransferCost - 1
  /\ Decodes(SEL_transfer, last.env.input)
  /\ last.out.cause = "OutOfWeight"

\* C4: a call of a mutating func_id with an undecodable input and a budget
\* of at least the estimated cost fails with DecodeFailure, its budget is
\* reduced by the whole estimated cost (the charge comes before the decode),
\* and no ledger mutation is attempted.
C4_ChargePrecedesDecode ==
  (/\ Returned(MutatingSelectors)
   /\ ~Decodes(last.func_id, last.env.input)
   /\ last.env.gas_left >= EstimatedCost(last.func_id)) =>
    /\ Failed
    /\ last.out.cause = "DecodeFailure"
    /\ last.out.ret = Err_DecodingFailed
    /\ last.out.gas_left = last.env.gas_left - EstimatedCost(last.func_id)
    /\ last.out.steps = <<"charge_weight", "read_as">>
    /\ LedgerUnchanged

C4_Witness ==
  /\ Returned({SEL_transfer_from})
  /\ last.env.input # <<>>
  /\ last.out.cause = "DecodeFailure"
  /\ last.out.gas_left = GasLimit - TransferCost

\* C5: every call that returns a failure, whatever its cause, leaves the
\* ledger as it was before the call; a mutate call of the ledger is only ever
\* the last step of a call, so nothing can fail after a mutation was applied.
C5_FailureLeavesLedger ==
  last.valid =>
    /\ Failed => LedgerUnchanged
    /\ Failed =>
         last.out.cause \in {"UnknownSelector", "Unimplemented", "DecodeFailure",
                             "OutputTooLarge", "OutOfWeight", "LedgerFailure"}
    /\ \A i \in 1..Len(last.out.steps) :
         last.out.steps[i] \in MutateSteps => i = Len(last.out.steps)
    /\ (Failed /\ last.out.cause # "LedgerFailure") =>
         StepsOf(last.out) \cap MutateSteps = {}

C5_Witness ==
  /\ Returned({SEL_transfer_from})
  /\ last.out.cause = "LedgerFailure"
  /\ last.out.log[Len(last.out.log)].detail = "BalanceLow"
  /\ last.env.ledger # InitialLedger

\* C6: approve (0xb20f1bbd) and increase allowance (0x96d6b57a), called in
\* the same environment (ledger, caller, budget, input), leave the same
\* allowances, charge the same weight and return the same value.
C6_ApproveAliasesAgree ==
  Returned({SEL_approve, SEL_increase_allowance}) =>
    LET alias == IF last.func_id = SEL_approve THEN SEL_increase_allowance
                 ELSE SEL_approve
        other == call(alias, last.env)
    IN /\ other.ledger.allowances = last.out.ledger.allowances
       /\ other.ledger = last.out.ledger
       /\ last.env.gas_left - other.gas_left = last.env.gas_left - last.out.gas_left
       /\ other.ret = last.out.ret

C6_Witness ==
  /\ Returned({SEL_increase_allowance})
  /\ ~Failed
  /\ last.out.ledger.allowances # last.env.ledger.allowances
  /\ last.out.gas_left = GasLimit - ApproveCost

\* C7: balance of (0x6568382f) with a buffer that decodes and an output
\* capacity of at least the encoded balance succeeds, writes exactly the
\* encoding of the ledger's balance(asset, owner), and leaves the ledger as
\* it was.
C7_BalanceOfReturnsBalance ==
  (/\ Returned({SEL_balance_of})
   /\ Decodes(SEL_balance_of, last.env.input)
   /\ last.env.out_cap >= BalanceBytes) =>
    LET request == Psp22BalanceOfInput_decode(last.env.input).value
        balance == Ledger_balance(last.env.ledger, request.asset_id, request.owner)
    IN /\ last.out.ret = Ok_Converging_0
       /\ last.out.output = EncodeLE(balance, BalanceBytes)
       /\ DecodeLE(last.out.output) = balance
       /\ LedgerUnchanged

C7_Witness ==
  /\ Returned({SEL_balance_of})
  /\ ~Failed
  /\ last.env.ledger # InitialLedger
  /\ last.env.caller # Psp22BalanceOfInput_decode(last.env.input).value.owner
  /\ DecodeLE(last.out.output) = 1

\* The encoded result a read-only func_id has to write for a decoded input.
ReadResult(func_id, env) ==
  CASE func_id = SEL_token_name ->
         EncodeVec(Ledger_name(Decode_AssetId(env.input).value))
    [] func_id = SEL_token_symbol ->
         EncodeVec(Ledger_symbol(Decode_AssetId(env.input).value))
    [] func_id = SEL_token_decimals ->
         EncodeLE(Ledger_decimals(Decode_AssetId(env.input).value), 1)
    [] func_id = SEL_total_supply ->
         EncodeLE(Ledger_total_issuance(env.ledger, Decode_AssetId(env.input).value),
                  BalanceBytes)
    [] func_id = SEL_balance_of ->
         LET request == Psp22BalanceOfInput_decode(env.input).value
         IN EncodeLE(Ledger_balance(env.ledger, request.asset_id, request.owner),
                     BalanceBytes)
    [] func_id = SEL_allowance ->
         LET request == Psp22AllowanceInput_decode(env.input).value
         IN EncodeLE(Ledger_allowance(env.ledger, request.asset_id, request.owner,
                                      request.spender), BalanceBytes)

\* C8: when the encoded result of a read-only operation is longer than the
\* declared output capacity the call fails with OutputTooLarge and writes
\* nothing; a read-only call that succeeds has written the whole encoding.
C8_NoSilentTruncation ==
  (Returned(ReadSelectors) /\ Decodes(last.func_id, last.env.input)) =>
    LET encoded == ReadResult(last.func_id, last.env)
    IN /\ Len(encoded) > last.env.out_cap =>
            /\ Failed
            /\ last.out.cause = "OutputTooLarge"
            /\ last.out.output = <<>>
       /\ ~Failed => (last.out.output = encoded /\ Len(encoded) <= last.env.out_cap)

C8_Witness ==
  /\ Returned({SEL_balance_of})
  /\ last.env.out_cap = BalanceBytes - 1
  /\ last.out.cause = "OutputTooLarge"
  /\ last.out.output = <<>>

\* The ledger error a call that failed in the ledger wrote to the log.
LedgerErrorOf(out) == out.log[Len(out.log)].detail

\* C9: the value a call returns when its ledger mutate call fails does not
\* depend on the ledger's error: every call of the same func_id that fails in
\* the ledger, from the ledger before this call or from the initial one,
\* with whatever caller and input, returns the same value, and that value
\* does not carry a ledger error.
C9_LedgerErrorHidden ==
  (last.valid /\ last.out.cause = "LedgerFailure") =>
    /\ last.out.ret.message \notin LedgerErrors
    /\ \A ledger \in {last.env.ledger, InitialLedger} :
         \A env \in EnvsFor(last.func_id, ledger) :
           LET other == call(last.func_id, env)
           IN other.cause = "LedgerFailure" => other.ret = last.out.ret

C9_Witness ==
  /\ Returned({SEL_transfer_from})
  /\ last.out.cause = "LedgerFailure"
  /\ LedgerErrorOf(last.out) = "BalanceLow"
  /\ \E env \in EnvsFor(last.func_id, last.env.ledger) :
       LET other == call(last.func_id, env)
       IN /\ other.cause = "LedgerFailure"
          /\ LedgerErrorOf(other) = "Unapproved"
          /\ other.ret = last.out.ret

\* The operation (arm) a func_id of the table is routed to.
OperationOf(func_id) ==
  IF func_id = SEL_increase_allowance THEN SEL_approve
  ELSE IF func_id \in TableSelectors THEN func_id ELSE "unregistered"

AllSelectors == TableSelectors \cup UnregisteredSelectors

ImplementedSelectors == ReadSelectors \cup MutatingSelectors

\* What the ledger answers to the mutate call of a mutating func_id whose
\* input decodes, made for the caller.
LedgerAnswer(func_id, env) ==
  CASE func_id = SEL_transfer ->
         LET request == Psp22TransferInput_decode(env.input).value
         IN Ledger_transfer(env.ledger, request.asset_id, env.caller, request.to,
                            request.value, TRUE)
    [] func_id = SEL_transfer_from ->
         LET request == Psp22TransferFromInput_decode(env.input).value
         IN Ledger_transfer_from(env.ledger, request.asset_id, env.caller,
                                 request.from, request.to, request.value)
    [] func_id \in {SEL_approve, SEL_increase_allowance} ->
         LET request == Psp22ApproveInput_decode(env.input).value
         IN Ledger_approve(env.ledger, request.asset_id, env.caller,
                           request.spender, request.value)

\* Every step of the handler of an implemented func_id succeeds: for a
\* mutating one the charge, the decode and the ledger call, for a read-only
\* one the decode and the write of the output.
EveryStepSucceeds(func_id, env) ==
  IF func_id \in MutatingSelectors
  THEN /\ env.gas_left >= EstimatedCost(func_id)
       /\ Decodes(func_id, env.input)
       /\ LedgerAnswer(func_id, env).ok
  ELSE /\ Decodes(func_id, env.input)
       /\ Len(ReadResult(func_id, env)) <= env.out_cap

\* C11: a call returns success exactly when its func_id is an implemented
\* entry of the selector table and every step of its handler succeeded (the
\* charge if it is mutating, the decode, the ledger call, the write of the
\* output if it is read-only); every successful call returns the same value,
\* the converging status 0.
C11_SuccessIffEveryStepSucceeded ==
  last.valid =>
    /\ ~Failed <=> (/\ last.func_id \in ImplementedSelectors
                    /\ EveryStepSucceeds(last.func_id, last.env))
    /\ ~Failed => (/\ last.out.ret = Ok_Converging_0
                   /\ last.out.ret.value = 0
                   /\ last.out.cause = "")

C11_Witness ==
  /\ Returned({SEL_transfer_from})
  /\ last.out.ret = Ok_Converging_0
  /\ last.out.ledger.balances # last.env.ledger.balances
  /\ last.env.caller # Psp22TransferFromInput_decode(last.env.input).value.from

\* C12: a mutate call of the ledger is made only by a mutating func_id and
\* only after a charge_weight of the same call that succeeded: the charge is
\* an earlier step, the budget covered the estimated cost and is lower by
\* it; a call that left the ledger changed has charged.
C12_MutationOnlyAfterCharge ==
  last.valid =>
    /\ \A i \in 1..Len(last.out.steps) :
         last.out.steps[i] \in MutateSteps =>
           /\ last.func_id \in MutatingSelectors
           /\ \E j \in 1..(i - 1) : last.out.steps[j] = "charge_weight"
           /\ last.env.gas_left >= EstimatedCost(last.func_id)
           /\ last.out.gas_left = last.env.gas_left - EstimatedCost(last.func_id)
    /\ ~LedgerUnchanged =>
         /\ "charge_weight" \in StepsOf(last.out)
         /\ last.out.gas_left < last.env.gas_left

C12_Witness ==
  /\ Returned({SEL_transfer})
  /\ ~Failed
  /\ last.out.steps = <<"charge_weight", "read_as", "transfer">>
  /\ last.out.ledger # last.env.ledger
  /\ last.out.gas_left = GasLimit - TransferCost

\* The WeightInfo base weight the arm of a mutating func_id reads:
\* WeightInfo::transfer() in the transfer and the transfer_from arm,
\* WeightInfo::approve_transfer() in the approve arm.
BaseWeight(func_id) ==
  IF func_id \in {SEL_transfer, SEL_transfer_from} THEN WeightInfo_transfer
  ELSE WeightInfo_approve_transfer

\* Base weights the arithmetic of the charge is checked for: small ones and
\* the ones around the point where the sum saturates.
WeightSamples ==
  (0..(2 * GasLimit)) \cup {(WeightMax * 10) \div 11 + k : k \in 0..2}
    \cup {WeightMax - 1, WeightMax}

\* 1.1 times the base weight, rounded down to a whole unit of weight and
\* capped at the largest weight.
BaseTimes11Tenths(weight) ==
  IF (11 * weight) \div 10 > WeightMax THEN WeightMax ELSE (11 * weight) \div 10

\* The weight the last call took from the budget.
Charged == last.env.gas_left - last.out.gas_left

\* C13 as claimed: the weight a mutating call is charged is 1.1 times the
\* base weight of its operation.
C13_ChargeIsBaseTimes11Tenths ==
  (Returned(MutatingSelectors) /\ last.out.cause # "OutOfWeight") =>
    10 * Charged = 11 * BaseWeight(last.func_id)

\* C13, amended: the weight a mutating call attempts to charge is the base
\* weight its arm reads plus a tenth of it in integer division, that is 1.1
\* times the base weight rounded down, capped at the largest weight: the
\* charge fails exactly when the budget is below that amount and otherwise
\* takes exactly that amount; it is 1.1 times the base weight only for a
\* base weight that is a multiple of 10 and does not saturate.
C13_ChargeIsBasePlusTenthRoundedDown ==
  /\ Returned(MutatingSelectors) =>
       LET amount == BaseTimes11Tenths(BaseWeight(last.func_id))
       IN /\ last.out.cause = "OutOfWeight" <=> last.env.gas_left < amount
          /\ last.out.cause # "OutOfWeight" => Charged = amount
          /\ last.out.cause = "OutOfWeight" => Charged = 0
  /\ \A weight \in WeightSamples :
       /\ estimated_weight(weight) = BaseTimes11Tenths(weight)
       /\ (weight % 10 = 0 /\ 11 * weight <= 10 * WeightMax) =>
            10 * estimated_weight(weight) = 11 * weight

C13_Witness ==
  /\ Returned({SEL_approve})
  /\ ~Failed
  /\ Charged = ApproveCost
  /\ 10 * Charged < 11 * WeightInfo_approve_transfer
  /\ \E weight \in WeightSamples :
       estimated_weight(weight) = WeightMax /\ weight + weight \div 10 > WeightMax

\* C14: a call of a read-only func_id (token name, token symbol, token
\* decimals, total supply, balance of, allowance), whatever its outcome,
\* attempts no charge and no mutate call, and leaves the budget and the
\* ledger as they were.
C14_ReadsUnmeteredAndPure ==
  Returned(ReadSelectors) =>
    /\ "charge_weight" \notin StepsOf(last.out)
    /\ StepsOf(last.out) \cap MutateSteps = {}
    /\ StepsOf(last.out) \subseteq {"read_as", "write"} \cup QuerySteps
    /\ last.out.gas_left = last.env.gas_left
    /\ LedgerUnchanged
    /\ last.out.cause \in {"", "DecodeFailure", "OutputTooLarge"}

C14_Witness ==
  /\ Returned({SEL_allowance})
  /\ ~Failed
  /\ DecodeLE(last.out.output) > 0
  /\ last.out.gas_left = GasLimit
  /\ pallet_assets # InitialLedger

\* C15: nothing is refunded or adjusted: after a call of a mutating func_id
\* whose charge succeeded the budget is lower by exactly the estimated cost,
\* whether the call then succeeded, failed to decode or failed in the ledger.
C15_NoRefund ==
  (Returned(MutatingSelectors) /\ last.env.gas_left >= EstimatedCost(last.func_id)) =>
    /\ last.out.cause \in {"", "DecodeFailure", "LedgerFailure"}
    /\ last.out.gas_left = last.env.gas_left - EstimatedCost(last.func_id)
    /\ Charged = BaseTimes11Tenths(BaseWeight(last.func_id))

C15_Witness ==
  /\ Returned({SEL_approve})
  /\ last.out.cause = "LedgerFailure"
  /\ last.out.gas_left = GasLimit - ApproveCost
  /\ LedgerUnchanged
  /\ \E other \in {call(SEL_approve, env) : env \in EnvsFor(SEL_approve, last.env.ledger)} :
       /\ other.cause = "DecodeFailure"
       /\ other.gas_left = last.out.gas_left

AdapterSteps == QuerySteps \cup MutateSteps

\* The adapter is called only with a request that decoded whole.
AdapterOnlyAfterDecode ==
  \A i \in 1..Len(last.out.steps) :
    last.out.steps[i] \in AdapterSteps =>
      /\ last.func_id \in ImplementedSelectors
      /\ Decodes(last.func_id, last.env.input)
      /\ \E j \in 1..(i - 1) : last.out.steps[j] = "read_as"

\* C16 as claimed: the adapter is called only after the whole request
\* decoded, and an input that does not decode makes the call fail with
\* DecodeFailure, with no adapter call and no output.
C16_TruncatedInputIsDecodeFailure ==
  last.valid =>
    /\ AdapterOnlyAfterDecode
    /\ (last.func_id \in ImplementedSelectors
        /\ ~Decodes(last.func_id, last.env.input)) =>
         /\ Failed
         /\ last.out.cause = "DecodeFailure"
         /\ StepsOf(last.out) \cap AdapterSteps = {}
         /\ last.out.output = <<>>

\* C16, amended: the adapter (query or mutate) is called only after the
\* whole request decoded; an input that does not decode makes the call fail
\* with no adapter call, no output and the ledger as before, with the cause
\* DecodeFailure, except that a mutating call whose budget is below the
\* estimated cost fails with OutOfWeight before its input is read.
C16_NoPartialRequestReachesHandler ==
  last.valid =>
    /\ AdapterOnlyAfterDecode
    /\ (last.func_id \in ImplementedSelectors
        /\ ~Decodes(last.func_id, last.env.input)) =>
         /\ Failed
         /\ last.out.cause =
              IF /\ last.func_id \in MutatingSelectors
                 /\ last.env.gas_left < EstimatedCost(last.func_id)
              THEN "OutOfWeight" ELSE "DecodeFailure"
         /\ last.out.cause = "OutOfWeight" => "read_as" \notin StepsOf(last.out)
         /\ StepsOf(last.out) \cap AdapterSteps = {}
         /\ last.out.output = <<>>
         /\ LedgerUnchanged

C16_Witness ==
  /\ Returned({SEL_approve})
  /\ last.env.input # <<>>
  /\ ~Decodes(SEL_approve, last.env.input)
  /\ last.out.cause = "OutOfWeight"
  /\ \E env \in EnvsFor(SEL_allowance, last.env.ledger) :
       /\ env.input # <<>>
       /\ call(SEL_allowance, env).cause = "DecodeFailure"
       /\ call(SEL_allowance, env).steps = <<"read_as">>

\* The steps the arm of an implemented func_id makes when none fails.
FullSteps(func_id) ==
  CASE func_id = SEL_token_name -> <<"read_as", "name", "write">>
    [] func_id = SEL_token_symbol -> <<"read_as", "symbol", "write">>
    [] func_id = SEL_token_decimals -> <<"read_as", "decimals", "write">>
    [] func_id = SEL_total_supply -> <<"read_as", "total_issuance", "write">>
    [] func_id = SEL_balance_of -> <<"read_as", "balance", "write">>
    [] func_id = SEL_allowance -> <<"read_as", "allowance", "write">>
    [] func_id = SEL_transfer -> <<"charge_weight", "read_as", "transfer">>
    [] func_id = SEL_transfer_from -> <<"charge_weight", "read_as", "transfer_from">>
    [] func_id \in {SEL_approve, SEL_increase_allowance} ->
         <<"charge_weight", "read_as", "approve">>
    [] OTHER -> <<>>

\* The steps at which a call can fail with the cause.
FailingSteps(cause) ==
  CASE cause = "OutOfWeight" -> {"charge_weight"}
    [] cause = "DecodeFailure" -> {"read_as"}
    [] cause = "LedgerFailure" -> MutateSteps
    [] cause = "OutputTooLarge" -> {"write"}
    [] OTHER -> {}

\* C17: nothing is retried: a call makes each of its steps (charge, decode,
\* adapter call, write of the output) at most once, in the order of its arm;
\* a call that fails ends with the step that failed, and a call that
\* succeeds has made every step of its arm once.
C17_NothingRetried ==
  last.valid =>
    LET steps == last.out.steps
        full == FullSteps(last.func_id)
    IN /\ \A i, j \in 1..Len(steps) : i # j => steps[i] # steps[j]
       /\ Cardinality({i \in 1..Len(steps) : steps[i] \in AdapterSteps}) <= 1
       /\ Len(steps) <= Len(full)
       /\ steps = SubSeq(full, 1, Len(steps))
       /\ ~Failed => steps = full
       /\ (Failed /\ full # <<>>) =>
            /\ steps # <<>>
            /\ steps[Len(steps)] \in FailingSteps(last.out.cause)
       /\ (Failed /\ full = <<>>) => steps = <<>>

C17_Witness ==
  /\ Returned({SEL_transfer})
  /\ last.out.cause = "LedgerFailure"
  /\ last.out.steps = <<"charge_weight", "read_as", "transfer">>
  /\ LedgerErrorOf(last.out) = "BalanceLow"

\* C19: the account a mutating call acts for is the caller, never an account
\* the input names: what it leaves is what the ledger makes of the request
\* with the caller as the source of a transfer, the spender of a
\* transfer_from (owner and destination from the input) and the owner of an
\* approve.  So a balance goes down only for the caller in a transfer, or
\* for the owner named in a transfer_from that had granted the caller an
\* allowance of at least that amount, which is used up by it; an allowance
\* goes up only for the caller as owner, and down only for the caller as
\* spender.
C19_ActsForCaller ==
  (Returned(MutatingSelectors) /\ ~Failed) =>
    LET before == last.env.ledger
        after == last.out.ledger
        caller == last.env.caller
    IN /\ after = LedgerAnswer(last.func_id, last.env).ledger
       /\ pallet_assets = after
       /\ \A a \in Accounts :
            after.balances[a] < before.balances[a] =>
              LET moved == before.balances[a] - after.balances[a]
              IN \/ last.func_id = SEL_transfer /\ a = caller
                 \/ /\ last.func_id = SEL_transfer_from
                    /\ a = Psp22TransferFromInput_decode(last.env.input).value.from
                    /\ before.allowances[<<a, caller>>] >= moved
                    /\ after.allowances[<<a, caller>>] =
                         before.allowances[<<a, caller>>] - moved
       /\ \A p \in Pairs :
            /\ after.allowances[p] > before.allowances[p] =>
                 /\ last.func_id \in {SEL_approve, SEL_increase_allowance}
                 /\ p[1] = caller
                 /\ p[2] = Psp22ApproveInput_decode(last.env.input).value.spender
            /\ after.allowances[p] < before.allowances[p] =>
                 /\ last.func_id = SEL_transfer_from
                 /\ p[2] = caller

C19_Witness ==
  /\ Returned({SEL_transfer_from})
  /\ ~Failed
  /\ LET request == Psp22TransferFromInput_decode(last.env.input).value
     IN /\ request.from # last.env.caller
        /\ request.to # request.from
        /\ request.value > 0
        /\ last.env.ledger.allowances[<<request.from, last.env.caller>>] = request.value
        /\ last.out.ledger.allowances[<<request.from, last.env.caller>>] = 0
        /\ last.out.ledger.balances[request.from] < last.env.ledger.balances[request.from]

RequestTypes ==
  {"Psp22BalanceOfInput", "Psp22AllowanceInput", "Psp22TransferInput",
   "Psp22TransferFromInput", "Psp22ApproveInput"}

\* The number of bytes the encoding of a request of the type takes.
EncodedLen(fn) ==
  CASE fn = "Psp22BalanceOfInput" -> AssetIdBytes + AccountIdBytes
    [] fn = "Psp22AllowanceInput" -> AssetIdBytes + 2 * AccountIdBytes
    [] fn = "Psp22TransferInput" -> AssetIdBytes + AccountIdBytes + BalanceBytes
    [] fn = "Psp22TransferFromInput" -> AssetIdBytes + 2 * AccountIdBytes + BalanceBytes
    [] fn = "Psp22ApproveInput" -> AssetIdBytes + AccountIdBytes + BalanceBytes

\* C18: for every value v of each of the five request types (balance of,
\* allowance, transfer, transfer_from, approve), decoding the encoding of v
\* succeeds and gives v back, field by field.
C18_RoundTrip ==
  (applied.fn \in RequestTypes /\ applied.done) =>
    /\ Len(applied.encoded) = EncodedLen(applied.fn)
    /\ \A i \in 1..Len(applied.encoded) : applied.encoded[i] \in 0..255
    /\ applied.output.ok
    /\ applied.output.value = applied.input

C18_Witness ==
  /\ applied.fn = "Psp22TransferFromInput"
  /\ applied.done
  /\ applied.input.from # applied.input.to
  /\ applied.input.value = Pow256(BalanceBytes) - 1
  /\ applied.input.asset_id = Pow256(AssetIdBytes) - 1
  /\ applied.output.ok
  /\ applied.output.value = applied.input

\* The first sequence is the beginning of the second.
IsPrefix(p, s) == Len(p) <= Len(s) /\ SubSeq(s, 1, Len(p)) = p

\* C20: filter_asset_location(asset, origin) of ReserveAssetsFrom<T> is
\* true exactly when the origin is T, the asset is fungible with a concrete
\* location, and that location has as many parents as T and an interior
\* that begins with the interior of T; it is false for a non-fungible
\* asset, an abstract id, another origin, and a location that is shorter
\* than T or departs from it.
C20_ReserveFilter ==
  (applied.fn = "filter_asset_location" /\ applied.done) =>
    LET T == applied.input.prefix
        asset == applied.input.asset
        origin == applied.input.origin
    IN applied.output <=>
         /\ origin = T
         /\ asset.fun.kind = "Fungible"
         /\ asset.id.kind = "Concrete"
         /\ asset.id.location.parents = T.parents
         /\ IsPrefix(T.interior, asset.id.location.interior)

C20_Witness ==
  /\ applied.fn = "filter_asset_location"
  /\ applied.done
  /\ applied.output = TRUE
  /\ applied.input.prefix = StatemineLocation
  /\ applied.input.asset.id.location =
       [parents |-> 1,
        interior |-> << <<"Parachain", 1000>>, <<"PalletInstance", 50>>,
                        <<"GeneralIndex", 1>> >>]
  /\ ~filter_asset_location(StatemineAssetsPalletLocation,
                            [applied.input.asset EXCEPT !.id.location = StatemineLocation],
                            StatemineAssetsPalletLocation)

====
